---- MODULE Spec2Model ----
(***************************************************************************)
(* A model of package gosns (pbnjay/gosns): the SNS HTTP endpoint server.  *)
(*                                                                         *)
(* Texts (URL paths, the Content-Length header value, request bodies,      *)
(* message texts) are sequences of one-character or one-token strings, so  *)
(* that slicing, prefixing, scanning and reading a given number of bytes   *)
(* are computed as the code computes them.  A body's unit of length is one *)
(* lexical token of the JSON text.                                         *)
(***************************************************************************)
EXTENDS Integers, Sequences, FiniteSets, TLC

\* ------------------------------------------------------------------ bounds
\* the number of AddTopic calls made before ListenAndServe
MaxTopics == 2
\* the number of requests in flight together in ConcSpec
MaxReq == 2
\* the wall clock's instants 1..MaxTime (0 is time.Time's zero value)
MaxTime == 2

\* ------------------------------------------------------- program constants
StatusOK == 200
StatusBadRequest == 400
StatusNotFound == 404
StatusNotImplemented == 501

\* --------------------------------------------------------------- headers
\* A header of a request: absent, or present with a value.
Absent(zero) == [present |-> FALSE, v |-> zero]
Hdr(val) == [present |-> TRUE, v |-> val]

\* http.Header.Get: the value, or the empty string when the header is absent.
HeaderGet(h, zero) == IF h.present THEN h.v ELSE zero

\* ------------------------------------------------------------ time format
ZeroTime == 0
Instants == 1..MaxTime

\* Time.Format(amzTimeFormat) of an instant, in UTC.
amzTimeFormat(t) ==
  IF t = ZeroTime THEN "0001-01-01T00:00:00Z"
  ELSE IF t = 1 THEN "2016-03-01T10:00:00.001Z"
  ELSE IF t = 2 THEN "2016-03-01T10:00:00.002Z"
  ELSE IF t = 3 THEN "2016-03-01T10:00:00.003Z"
  ELSE "2016-03-01T10:00:00.004Z"

\* TimeParse with the current time taken for a text the layout rejects
TimeParse_NowOnError(s) ==
  IF \E t \in 0..MaxTime : <<amzTimeFormat(t)>> = s
  THEN CHOOSE t \in 0..MaxTime : <<amzTimeFormat(t)>> = s
  ELSE MaxTime

\* time.Parse(amzTimeFormat, s) with its error dropped: the instant the text
\* denotes, or the zero time when the text does not match the layout.
TimeParse(s) ==
  IF \E t \in 0..MaxTime : <<amzTimeFormat(t)>> = s
  THEN CHOOSE t \in 0..MaxTime : <<amzTimeFormat(t)>> = s
  ELSE ZeroTime

\* ------------------------------------------------------------ fmt.Sscanf
Digits == <<"0", "1", "2", "3", "4", "5", "6", "7", "8", "9">>
IsDigit(c) == \E i \in 1..10 : Digits[i] = c
DigitVal(c) == (CHOOSE i \in 1..10 : Digits[i] = c) - 1

RECURSIVE SkipSpace(_)
SkipSpace(s) == IF s # <<>> /\ Head(s) = " " THEN SkipSpace(Tail(s)) ELSE s

\* the longest prefix of s made of digits
RECURSIVE DigitRun(_)
DigitRun(s) ==
  IF s # <<>> /\ IsDigit(Head(s)) THEN <<Head(s)>> \o DigitRun(Tail(s)) ELSE <<>>

RECURSIVE DecimalValue(_, _)
DecimalValue(s, acc) ==
  IF s = <<>> THEN acc ELSE DecimalValue(Tail(s), 10 * acc + DigitVal(Head(s)))

\* fmt.Sscanf(s, "%d", &nbytes): leading spaces are skipped, one sign is
\* accepted, then the digits that follow are the number; what follows the
\* digits is left unread.  n is the count of items scanned.
Sscanf(s) ==
  LET t == SkipSpace(s)
      neg == t # <<>> /\ Head(t) = "-"
      u == IF t # <<>> /\ Head(t) \in {"-", "+"} THEN Tail(t) ELSE t
      d == DigitRun(u)
  IN IF d = <<>> THEN [n |-> 0, nbytes |-> 0]
     ELSE [n |-> 1,
           nbytes |-> IF neg THEN 0 - DecimalValue(d, 0) ELSE DecimalValue(d, 0)]

\* ------------------------------------------------------------------ JSON
Keys == {"Timestamp", "Message", "MessageId", "Subject", "SubscribeURL"}

\* interface{} values of the decoded map
NilValue == [t |-> "nil", s |-> <<>>]
StringValue(s) == [t |-> "string", s |-> s]
NumberValue == [t |-> "float64", s |-> <<>>]

\* the members a body may hold: one token per "key": value pair
Members == {
  "Timestamp:t1", "Timestamp:bad", "Timestamp:5",
  "Message:m", "Message:5",
  "MessageId:i", "MessageId:5",
  "Subject:s", "Subject:null", "Subject:5",
  "SubscribeURL:u", "SubscribeURL:5" }

MemberKey(tok) ==
  CASE tok \in {"Timestamp:t1", "Timestamp:bad", "Timestamp:5"} -> "Timestamp"
    [] tok \in {"Message:m", "Message:5"} -> "Message"
    [] tok \in {"MessageId:i", "MessageId:5"} -> "MessageId"
    [] tok \in {"Subject:s", "Subject:null", "Subject:5"} -> "Subject"
    [] OTHER -> "SubscribeURL"

MemberValue(tok) ==
  CASE tok = "Timestamp:t1" -> StringValue(<<amzTimeFormat(1)>>)
    [] tok = "Timestamp:bad" -> StringValue(<<"yesterday">>)
    [] tok = "Message:m" -> StringValue(<<"m">>)
    [] tok = "MessageId:i" -> StringValue(<<"i">>)
    [] tok = "Subject:s" -> StringValue(<<"s">>)
    [] tok = "Subject:null" -> NilValue
    [] tok = "SubscribeURL:u" -> StringValue(<<"http://example.test/confirm">>)
    [] OTHER -> NumberValue

RECURSIVE StripSpaceEnd(_)
StripSpaceEnd(b) ==
  IF b # <<>> /\ b[Len(b)] = " " THEN StripSpaceEnd(SubSeq(b, 1, Len(b) - 1)) ELSE b

\* the map with no key: every lookup yields the nil interface
EmptyMap == [k \in Keys |-> NilValue]

RECURSIVE DecodeMembers(_, _)
DecodeMembers(ms, m) ==
  IF ms = <<>> THEN m
  ELSE DecodeMembers(Tail(ms),
                     [m EXCEPT ![MemberKey(Head(ms))] = MemberValue(Head(ms))])

\* json.Unmarshal(jsonBytes, &data) into a map[string]interface{}: err is set
\* unless the text is one JSON value that a map can take, an object or null;
\* null sets the map to nil; a later member of a key replaces an earlier one.
\* White space around the value is allowed.
Unmarshal(b) ==
  LET t == StripSpaceEnd(SkipSpace(b))
  IN IF t = <<"null">> THEN [err |-> FALSE, nil |-> TRUE, m |-> EmptyMap]
     ELSE IF /\ Len(t) >= 2
             /\ t[1] = "{"
             /\ t[Len(t)] = "}"
             /\ \A i \in 2..(Len(t) - 1) : t[i] \in Members
     THEN [err |-> FALSE, nil |-> FALSE,
           m |-> DecodeMembers(SubSeq(t, 2, Len(t) - 1), EmptyMap)]
     ELSE [err |-> TRUE, nil |-> TRUE, m |-> EmptyMap]

\* ----------------------------------------------------------------- state
VARIABLES
  topics,    \* Server.topics: path -> topicDescription (no key: the nil map)
  ntopics,   \* the number of AddTopic calls made
  serving,   \* ListenAndServe has been called
  crashed,   \* the process died of a panic no one recovers
  req,       \* slot -> the request being handled
  pc,        \* slot -> the handler's position
  now,       \* slot -> time.Now() as read by the handler's extraction
  resp,      \* slot -> the responses written to the ResponseWriter, in order
  bodyRead,  \* slot -> io.ReadFull was called on the request's body
  out,       \* slot -> the lines the handler printed with fmt.Printf
  gets,      \* the outbound http.Get calls, in order
  calls      \* the goroutines spawned with go td.Callback(..), in order

vars == <<topics, ntopics, serving, crashed, req, pc, now, resp, bodyRead, out,
          gets, calls>>

Slots == 1..MaxReq

\* ------------------------------------------------------------ input sets
TopicARNs == {"", "arn1"}
Callbacks == {"cb1", "cb2"}
Endpoints == {<<"/", "a">>, <<"a">>, <<"b">>, <<>>}
Paths == {<<"/", "a">>, <<"/", "b">>}

WellFormed == <<"{", "Timestamp:t1", "Message:m", "MessageId:i", "}">>

Bodies == {
  <<>>,
  <<"hello">>,
  <<"null">>,
  <<"{", "}">>,
  WellFormed,
  WellFormed \o <<" ">>,
  WellFormed \o <<"hello">>,
  <<"{", "Timestamp:t1", "Message:m", "MessageId:i", "Subject:s", "}">>,
  <<"{", "Timestamp:t1", "Message:m", "MessageId:i", "Subject:null", "}">>,
  <<"{", "Timestamp:t1", "Message:m", "MessageId:i", "Subject:5", "}">>,
  <<"{", "Timestamp:bad", "Message:m", "MessageId:i", "}">>,
  <<"{", "Message:m", "MessageId:i", "}">>,
  <<"{", "Timestamp:5", "Message:m", "MessageId:i", "}">>,
  <<"{", "Timestamp:t1", "MessageId:i", "}">>,
  <<"{", "Timestamp:t1", "Message:5", "MessageId:i", "}">>,
  <<"{", "Timestamp:t1", "Message:m", "}">>,
  <<"{", "Timestamp:t1", "Message:m", "MessageId:5", "}">>,
  <<"{", "SubscribeURL:u", "}">>,
  <<"{", "SubscribeURL:5", "}">> }

\* the decimal text of a length below ten
Decimal(n) == <<Digits[n + 1]>>

\* the Content-Length headers tried with a body: none, not a number, negative,
\* one less than, equal to and one more than the body's length, and the
\* body's length followed by a letter
ContentLengths(b) ==
  {Absent(<<>>), Hdr(<<"x">>), Hdr(<<"-", "1">>),
   Hdr(Decimal(Len(b))), Hdr(Decimal(Len(b) + 1)), Hdr(Decimal(Len(b)) \o <<"x">>)}
  \cup (IF Len(b) > 0 THEN {Hdr(Decimal(Len(b) - 1))} ELSE {})

TopicHeaders == {Absent(""), Hdr("arn1"), Hdr("arn2")}
TypeHeaders == {Absent(""), Hdr("SubscriptionConfirmation"), Hdr("Notification"),
                Hdr("UnsubscribeConfirmation")}
\* the raw-delivery flag with the message-id header
RawHeaders == {<<Absent(""), Absent(<<>>)>>, <<Hdr("true"), Absent(<<>>)>>,
               <<Hdr("true"), Hdr(<<"abc">>)>>}

Request(p, t, ty, raw, cl, b) ==
  [path |-> p, topic |-> t, type |-> ty, rawdelivery |-> raw[1],
   messageId |-> raw[2], contentLength |-> cl, body |-> b]

\* the bodies tried with every Content-Length header
ProbeBodies == {<<"hello">>, WellFormed, WellFormed \o <<" ">>,
                WellFormed \o <<"hello">>, <<"{", "SubscribeURL:u", "}">>}

\* <<Content-Length header, body>>: every body with its own length, the probe
\* bodies with every header
Payloads ==
  {<<Hdr(Decimal(Len(b))), b>> : b \in Bodies}
  \cup UNION {{<<cl, b>> : cl \in ContentLengths(b)} : b \in ProbeBodies}

\* the payloads tried with every combination of the routing headers
RoutingPayloads == {<<Absent(<<>>), <<>>>>, <<Hdr(Decimal(Len(WellFormed))), WellFormed>>,
                    <<Hdr(<<"3">>), <<"{", "SubscribeURL:u", "}">>>>}

RoutingRequests ==
  {Request(p, t, ty, raw, pl[1], pl[2]) :
     p \in Paths, t \in TopicHeaders, ty \in TypeHeaders, raw \in RawHeaders,
     pl \in RoutingPayloads}

\* the deliveries that may reach a flow, with every payload
FlowRequests ==
  {Request(p, t, ty, raw, pl[1], pl[2]) :
     p \in Paths, t \in {Absent(""), Hdr("arn1")},
     ty \in {Hdr("SubscriptionConfirmation"), Hdr("Notification")},
     raw \in RawHeaders, pl \in Payloads}

Requests == RoutingRequests \cup FlowRequests

NoRequest ==
  Request(<<>>, Absent(""), Absent(""), <<Absent(""), Absent(<<>>)>>, Absent(<<>>), <<>>)

\* a *Message, or nil
ZeroMessage == [Subject |-> <<>>, Message |-> <<>>, MessageId |-> <<>>,
                Timestamp |-> ZeroTime]
NilMessage == [nil |-> TRUE, msg |-> ZeroMessage]
MessagePtr(m) == [nil |-> FALSE, msg |-> m]

\* ------------------------------------------------------------- AddTopic
\* endpoint[:1] != "/" (the caller has checked that endpoint is not empty)
NeedsSlash(endpoint) == SubSeq(endpoint, 1, 1) # <<"/">>

NormalizedEndpoint(endpoint) ==
  IF NeedsSlash(endpoint) THEN <<"/">> \o endpoint ELSE endpoint

\* s.topics[endpoint] = t, on the nil map too
WithTopic(m, endpoint, t) ==
  [p \in (DOMAIN m) \cup {endpoint} |-> IF p = endpoint THEN t ELSE m[p]]

\* AddTopic, called by the program before it serves.  endpoint[:1] of the
\* empty string is out of range: the panic ends the process.
AddTopic(topicARN, endpoint, callback) ==
  /\ ~serving /\ ~crashed
  /\ ntopics < MaxTopics
  /\ ntopics' = ntopics + 1
  /\ IF Len(endpoint) < 1
     THEN crashed' = TRUE /\ UNCHANGED topics
     ELSE /\ topics' = WithTopic(topics, NormalizedEndpoint(endpoint),
                                 [TopicARN |-> topicARN, Callback |-> callback])
          /\ UNCHANGED crashed
  /\ UNCHANGED <<serving, req, pc, now, resp, bodyRead, out, gets, calls>>

ListenAndServe ==
  /\ ~serving /\ ~crashed
  /\ serving' = TRUE
  /\ UNCHANGED <<topics, ntopics, crashed, req, pc, now, resp, bodyRead, out,
                 gets, calls>>

\* -------------------------------------------------------- simpleResponse
\* WriteHeader(code), then Fprintln(w, msg)
simpleResponse(w, code, msg) == Append(w, [code |-> code, body |-> <<msg, "\n">>])

\* ------------------------------------------------------- extractJsonBody
NoData(read, line) ==
  [panic |-> FALSE, nil |-> TRUE, m |-> EmptyMap, read |-> read, out |-> <<line>>]

\* RawData with the x-amz-sns-message-id header not read
RawData_NoMessageId(r, jsonBytes, t) ==
  [EmptyMap EXCEPT
     !["Subject"] = StringValue(<<>>),
     !["Message"] = StringValue(jsonBytes),
     !["MessageId"] = StringValue(<<>>),
     !["Timestamp"] = StringValue(<<amzTimeFormat(t)>>)]

\* the field set of a raw delivery
RawData(r, jsonBytes, t) ==
  [EmptyMap EXCEPT
     !["Subject"] = StringValue(<<>>),
     !["Message"] = StringValue(jsonBytes),
     !["MessageId"] = StringValue(HeaderGet(r.messageId, <<>>)),
     !["Timestamp"] = StringValue(<<amzTimeFormat(t)>>)]

\* the request is in raw-delivery mode
IsRaw(r) == HeaderGet(r.rawdelivery, "") = "true"

\* extractJsonBody with the short read of the body not checked
extractJsonBody_ShortReadUnchecked(r, t) ==
  LET sc == Sscanf(HeaderGet(r.contentLength, <<>>))
      nbytes == sc.nbytes
      jsonBytes == SubSeq(r.body, 1, IF nbytes > Len(r.body) THEN Len(r.body) ELSE nbytes)
      u == Unmarshal(jsonBytes)
  IN IF sc.n # 1 THEN NoData(FALSE, "no content-length??")
     ELSE IF nbytes < 0
     THEN [panic |-> TRUE, nil |-> TRUE, m |-> EmptyMap, read |-> FALSE, out |-> <<>>]
     ELSE IF IsRaw(r)
     THEN [panic |-> FALSE, nil |-> FALSE, m |-> RawData(r, jsonBytes, t),
           read |-> TRUE, out |-> <<>>]
     ELSE IF u.err THEN NoData(TRUE, "error parsing json body")
     ELSE [panic |-> FALSE, nil |-> u.nil, m |-> u.m, read |-> TRUE, out |-> <<>>]

\* extractJsonBody with a raw delivery's body taken whole, whatever the
\* Content-Length header is
extractJsonBody_RawWholeBody(r, t) ==
  LET sc == Sscanf(HeaderGet(r.contentLength, <<>>))
      nbytes == sc.nbytes
      jsonBytes == SubSeq(r.body, 1, nbytes)
      u == Unmarshal(jsonBytes)
  IN IF IsRaw(r)
     THEN [panic |-> FALSE, nil |-> FALSE, m |-> RawData(r, r.body, t),
           read |-> TRUE, out |-> <<>>]
     ELSE IF sc.n # 1 THEN NoData(FALSE, "no content-length??")
     ELSE IF nbytes < 0
     THEN [panic |-> TRUE, nil |-> TRUE, m |-> EmptyMap, read |-> FALSE, out |-> <<>>]
     ELSE IF nbytes > Len(r.body) THEN NoData(TRUE, "error reading body")
     ELSE IF u.err THEN NoData(TRUE, "error parsing json body")
     ELSE [panic |-> FALSE, nil |-> u.nil, m |-> u.m, read |-> TRUE, out |-> <<>>]

\* extractJsonBody(r) with time.Now() = t: the map (nil: no data), whether the
\* body was read, what was printed, and whether make([]byte, nbytes) panicked.
extractJsonBody(r, t) ==
  LET sc == Sscanf(HeaderGet(r.contentLength, <<>>))
      nbytes == sc.nbytes
      jsonBytes == SubSeq(r.body, 1, nbytes)
      u == Unmarshal(jsonBytes)
  IN IF sc.n # 1 THEN NoData(FALSE, "no content-length??")
     ELSE IF nbytes < 0
     THEN [panic |-> TRUE, nil |-> TRUE, m |-> EmptyMap, read |-> FALSE, out |-> <<>>]
     ELSE IF nbytes > Len(r.body) THEN NoData(TRUE, "error reading body")
     ELSE IF IsRaw(r)
     THEN [panic |-> FALSE, nil |-> FALSE, m |-> RawData(r, jsonBytes, t),
           read |-> TRUE, out |-> <<>>]
     ELSE IF u.err THEN NoData(TRUE, "error parsing json body")
     ELSE [panic |-> FALSE, nil |-> u.nil, m |-> u.m, read |-> TRUE, out |-> <<>>]

\* x.(string) succeeds
IsString(x) == x.t = "string"

\* the deliveries made together in ConcSpec
ConcRequests == {
  Request(<<"/", "a">>, Hdr("arn1"), Hdr("Notification"),
          <<Absent(""), Absent(<<>>)>>, Hdr(Decimal(Len(WellFormed))), WellFormed),
  Request(<<"/", "b">>, Absent(""), Hdr("Notification"),
          <<Hdr("true"), Hdr(<<"abc">>)>>, Hdr(<<"1">>), <<"hello">>),
  Request(<<"/", "a">>, Hdr("arn1"), Hdr("SubscriptionConfirmation"),
          <<Absent(""), Absent(<<>>)>>, Hdr(<<"3">>), <<"{", "SubscribeURL:u", "}">>),
  Request(<<"/", "a">>, Hdr("arn1"), Hdr("Notification"),
          <<Absent(""), Absent(<<>>)>>, Hdr(<<"4">>),
          <<"{", "Message:m", "MessageId:i", "}">>),
  Request(<<"/", "b">>, Hdr("arn2"), Absent(""),
          <<Absent(""), Absent(<<>>)>>, Absent(<<>>), <<>>) }

\* the deliveries of the liveness checks
LiveRequests == {
  Request(<<"/", "a">>, Hdr("arn1"), Hdr("Notification"),
          <<Absent(""), Absent(<<>>)>>, Hdr(Decimal(Len(WellFormed))), WellFormed),
  Request(<<"/", "b">>, Absent(""), Hdr("Notification"),
          <<Hdr("true"), Hdr(<<"abc">>)>>, Hdr(<<"1">>), <<"hello">>),
  Request(<<"/", "a">>, Hdr("arn1"), Hdr("SubscriptionConfirmation"),
          <<Absent(""), Absent(<<>>)>>, Hdr(<<"3">>), <<"{", "SubscribeURL:u", "}">>) }


\* every request of the specifications below
AllRequests == Requests \cup ConcRequests \cup LiveRequests \cup {NoRequest}

\* extractJsonBody of each request at each instant, computed once
Extracted ==
  [r \in AllRequests |-> [t \in Instants |-> extractJsonBody(r, t)]]

\* ---------------------------------------------------------------- Init
Init ==
  /\ topics = <<>>
  /\ ntopics = 0
  /\ serving = FALSE
  /\ crashed = FALSE
  /\ req = [s \in Slots |-> NoRequest]
  /\ pc = [s \in Slots |-> "idle"]
  /\ now = [s \in Slots |-> ZeroTime]
  /\ resp = [s \in Slots |-> <<>>]
  /\ bodyRead = [s \in Slots |-> FALSE]
  /\ out = [s \in Slots |-> <<>>]
  /\ gets = <<>>
  /\ calls = <<>>

\* ------------------------------------------------------------ ServeHTTP
\* net/http hands request r to ServeHTTP on a goroutine of its own, in the
\* lowest free slot.
Arrive(s, r) ==
  /\ serving /\ ~crashed
  /\ pc[s] = "idle"
  /\ \A s2 \in Slots : s2 < s => pc[s2] # "idle"
  /\ req' = [req EXCEPT ![s] = r]
  /\ pc' = [pc EXCEPT ![s] = "ServeHTTP"]
  /\ UNCHANGED <<topics, ntopics, serving, crashed, now, resp, bodyRead, out,
                 gets, calls>>

\* td, found := s.topics[r.URL.Path]
Found(r) == r.path \in DOMAIN topics

\* td.TopicARN == amzTopic
TopicMatches(r) == topics[r.path].TopicARN = HeaderGet(r.topic, "")

\* TypeSwitch with the message flow as the default case
TypeSwitch_DefaultNotification(amzType) ==
  CASE amzType = "SubscriptionConfirmation" -> "confirmSub"
    [] OTHER -> "processMessage"

\* the position ServeHTTP goes to for a delivery of a matching topic, by
\* amzType: a flow to run before the response, or the response at once
TypeSwitch(amzType) ==
  CASE amzType = "SubscriptionConfirmation" -> "confirmSub"
    [] amzType = "Notification" -> "processMessage"
    [] OTHER -> "default"

\* Route with the path lookup's miss falling through to the last answer
Route_NoNotFound(r) ==
  IF ~Found(r) THEN "default"
  ELSE IF ~TopicMatches(r) THEN "badRequest"
  ELSE TypeSwitch(HeaderGet(r.type, ""))

\* Route without the check of the channel id
Route_NoTopicCheck(r) ==
  IF ~Found(r) THEN "notFound" ELSE TypeSwitch(HeaderGet(r.type, ""))

\* the branch ServeHTTP takes for request r
Route(r) ==
  IF ~Found(r) THEN "notFound"
  ELSE IF ~TopicMatches(r) THEN "badRequest"
  ELSE TypeSwitch(HeaderGet(r.type, ""))

\* ServeHTTP up to the call of a flow, or to its answer when no flow runs
ServeHTTP(s) ==
  LET branch == Route(req[s])
  IN /\ ~crashed
     /\ pc[s] = "ServeHTTP"
     /\ CASE branch = "notFound" ->
               /\ resp' = [resp EXCEPT
                     ![s] = simpleResponse(@, StatusNotFound, "not found")]
               /\ pc' = [pc EXCEPT ![s] = "done"]
          [] branch = "badRequest" ->
               /\ resp' = [resp EXCEPT
                     ![s] = simpleResponse(@, StatusBadRequest, "bad request")]
               /\ pc' = [pc EXCEPT ![s] = "done"]
          [] branch = "default" ->
               /\ resp' = [resp EXCEPT
                     ![s] = simpleResponse(@, StatusNotImplemented, "not implemented")]
               /\ pc' = [pc EXCEPT ![s] = "done"]
          [] OTHER ->
               /\ pc' = [pc EXCEPT ![s] = branch]
               /\ UNCHANGED resp
     /\ UNCHANGED <<topics, ntopics, serving, crashed, req, now, bodyRead, out,
                    gets, calls>>

\* Respond with the handler waiting for the callbacks it spawned
Respond_JoinsCallback(s) ==
  /\ ~crashed
  /\ pc[s] = "respond"
  /\ \A i \in DOMAIN calls : calls[i].slot = s => calls[i].st = "returned"
  /\ resp' = [resp EXCEPT ![s] = simpleResponse(@, StatusOK, "ok")]
  /\ pc' = [pc EXCEPT ![s] = "done"]
  /\ UNCHANGED <<topics, ntopics, serving, crashed, req, now, bodyRead, out,
                 gets, calls>>

\* Respond with the registration of the request's path dropped once served
Respond_DropsTopic(s) ==
  /\ ~crashed
  /\ pc[s] = "respond"
  /\ resp' = [resp EXCEPT ![s] = simpleResponse(@, StatusOK, "ok")]
  /\ pc' = [pc EXCEPT ![s] = "done"]
  /\ topics' = [p \in DOMAIN topics \ {req[s].path} |-> topics[p]]
  /\ UNCHANGED <<ntopics, serving, crashed, req, now, bodyRead, out, gets, calls>>

\* simpleResponse(w, http.StatusOK, "ok") after a flow has returned
Respond(s) ==
  /\ ~crashed
  /\ pc[s] = "respond"
  /\ resp' = [resp EXCEPT ![s] = simpleResponse(@, StatusOK, "ok")]
  /\ pc' = [pc EXCEPT ![s] = "done"]
  /\ UNCHANGED <<topics, ntopics, serving, crashed, req, now, bodyRead, out,
                 gets, calls>>

\* ----------------------------------------------------------- confirmSub
\* Spawn with the callback started twice
Spawn_Twice(cs, s, callback, arg) ==
  cs \o << [slot |-> s, callback |-> callback, arg |-> arg, st |-> "running"],
           [slot |-> s, callback |-> callback, arg |-> arg, st |-> "running"] >>

\* go td.Callback(arg): a goroutine nobody waits for
Spawn(cs, s, callback, arg) ==
  Append(cs, [slot |-> s, callback |-> callback, arg |-> arg, st |-> "running"])

\* the instant the extraction reads from the clock, kept when it is used
ClockRead(r, d, t) == IF IsRaw(r) /\ ~d.nil THEN t ELSE ZeroTime

\* confirmSub with http.Get started and not waited for
confirmSub_GetNotAwaited(s) ==
  /\ ~crashed
  /\ pc[s] = "confirmSub"
  /\ \E t \in Instants :
       LET r == req[s]
           d == Extracted[r][t]
           subURL == d.m["SubscribeURL"]
       IN /\ t = 1 \/ ClockRead(r, d, t) # ZeroTime
          /\ bodyRead' = [bodyRead EXCEPT ![s] = d.read]
          /\ out' = [out EXCEPT ![s] = @ \o d.out]
          /\ now' = [now EXCEPT ![s] = ClockRead(r, d, t)]
          /\ IF d.panic THEN pc' = [pc EXCEPT ![s] = "panicked"] /\ UNCHANGED gets
             ELSE IF d.nil THEN pc' = [pc EXCEPT ![s] = "respond"] /\ UNCHANGED gets
             ELSE IF ~IsString(subURL)
             THEN pc' = [pc EXCEPT ![s] = "panicked"] /\ UNCHANGED gets
             ELSE /\ gets' = Append(gets, [slot |-> s, url |-> subURL.s,
                                           st |-> "pending"])
                  /\ pc' = [pc EXCEPT ![s] = "respond"]
  /\ UNCHANGED <<topics, ntopics, serving, crashed, req, resp, calls>>

\* confirmSub up to its call of http.Get.  data["SubscribeURL"].(string) on a
\* value that is no string panics; net/http recovers a handler's panic and
\* drops the connection.
confirmSub(s) ==
  /\ ~crashed
  /\ pc[s] = "confirmSub"
  /\ \E t \in Instants :
       LET r == req[s]
           d == Extracted[r][t]
           subURL == d.m["SubscribeURL"]
       IN /\ t = 1 \/ ClockRead(r, d, t) # ZeroTime
          /\ bodyRead' = [bodyRead EXCEPT ![s] = d.read]
          /\ out' = [out EXCEPT ![s] = @ \o d.out]
          /\ now' = [now EXCEPT ![s] = ClockRead(r, d, t)]
          /\ IF d.panic THEN pc' = [pc EXCEPT ![s] = "panicked"] /\ UNCHANGED gets
             ELSE IF d.nil THEN pc' = [pc EXCEPT ![s] = "respond"] /\ UNCHANGED gets
             ELSE IF ~IsString(subURL)
             THEN pc' = [pc EXCEPT ![s] = "panicked"] /\ UNCHANGED gets
             ELSE /\ gets' = Append(gets, [slot |-> s, url |-> subURL.s,
                                           st |-> "pending"])
                  /\ pc' = [pc EXCEPT ![s] = "httpGet"]
  /\ UNCHANGED <<topics, ntopics, serving, crashed, req, resp, calls>>

\* GetResult with a second http.Get issued after a failed one
GetResult_Retry(gs, s, st) ==
  LET done == [i \in DOMAIN gs |->
                 IF gs[i].slot = s /\ gs[i].st = "pending"
                 THEN [gs[i] EXCEPT !.st = st] ELSE gs[i]]
  IN IF st = "err"
     THEN done \o SelectSeq(gs, LAMBDA g : g.slot = s /\ g.st = "pending")
     ELSE done

\* GetResult with the flow going on while http.Get has not returned
GetResult_NotAwaited(gs, s, st) == gs

\* the pending http.Get of slot s, marked with its result
GetResult(gs, s, st) ==
  [i \in DOMAIN gs |->
     IF gs[i].slot = s /\ gs[i].st = "pending" THEN [gs[i] EXCEPT !.st = st] ELSE gs[i]]

\* ConfirmCalls with the callback spawned whatever http.Get returned
ConfirmCalls_IgnoresErr(cs, s, callback, err) == Spawn(cs, s, callback, NilMessage)

\* the callback goroutines confirmSub leaves behind once http.Get returned
\* with err (or nil)
ConfirmCalls(cs, s, callback, err) ==
  IF err THEN cs ELSE Spawn(cs, s, callback, NilMessage)

\* http.Get returns, with an error or without, and confirmSub runs to its end
httpGetReturns(s, err) ==
  /\ ~crashed
  /\ pc[s] = "httpGet"
  /\ gets' = GetResult(gets, s, IF err THEN "err" ELSE "ok")
  /\ out' = [out EXCEPT
        ![s] = IF err THEN Append(@, "error confirming subscription") ELSE @]
  /\ calls' = ConfirmCalls(calls, s, topics[req[s].path].Callback, err)
  /\ pc' = [pc EXCEPT ![s] = "respond"]
  /\ UNCHANGED <<topics, ntopics, serving, crashed, req, now, resp, bodyRead>>

\* ------------------------------------------------------- processMessage
\* the fields processMessage asserts to be strings, in the order it does
MessageFieldsAreStrings(m) ==
  /\ IsString(m["Timestamp"])
  /\ IsString(m["Message"])
  /\ IsString(m["MessageId"])
  /\ (m["Subject"] # NilValue => IsString(m["Subject"]))

\* MakeMessage with the Subject never copied
MakeMessage_NoSubject(m) ==
  [Subject |-> <<>>,
   Message |-> m["Message"].s,
   MessageId |-> m["MessageId"].s,
   Timestamp |-> TimeParse(m["Timestamp"].s)]

\* the Message built from the decoded map
MakeMessage(m) ==
  [Subject |-> IF m["Subject"] # NilValue THEN m["Subject"].s ELSE <<>>,
   Message |-> m["Message"].s,
   MessageId |-> m["MessageId"].s,
   Timestamp |-> TimeParse(m["Timestamp"].s)]

processMessage(s) ==
  /\ ~crashed
  /\ pc[s] = "processMessage"
  /\ \E t \in Instants :
       LET r == req[s]
           d == Extracted[r][t]
       IN /\ t = 1 \/ ClockRead(r, d, t) # ZeroTime
          /\ bodyRead' = [bodyRead EXCEPT ![s] = d.read]
          /\ out' = [out EXCEPT ![s] = @ \o d.out]
          /\ now' = [now EXCEPT ![s] = ClockRead(r, d, t)]
          /\ IF d.panic THEN pc' = [pc EXCEPT ![s] = "panicked"] /\ UNCHANGED calls
             ELSE IF d.nil THEN pc' = [pc EXCEPT ![s] = "respond"] /\ UNCHANGED calls
             ELSE IF ~MessageFieldsAreStrings(d.m)
             THEN pc' = [pc EXCEPT ![s] = "panicked"] /\ UNCHANGED calls
             ELSE /\ calls' = Spawn(calls, s, topics[r.path].Callback,
                                    MessagePtr(MakeMessage(d.m)))
                  /\ pc' = [pc EXCEPT ![s] = "respond"]
  /\ UNCHANGED <<topics, ntopics, serving, crashed, req, resp, gets>>

\* ------------------------------------------------------------ callbacks
\* A callback is the application's code: it may return, block for ever, or
\* panic, and a panic of a goroutine that nobody recovers ends the process.
CallbackReturns(i) ==
  /\ ~crashed
  /\ calls[i].st = "running"
  /\ calls' = [calls EXCEPT ![i].st = "returned"]
  /\ UNCHANGED <<topics, ntopics, serving, crashed, req, pc, now, resp,
                 bodyRead, out, gets>>

\* the callback blocks, or loops, for ever: its goroutine takes no more step
CallbackHangs(i) ==
  /\ ~crashed
  /\ calls[i].st = "running"
  /\ calls' = [calls EXCEPT ![i].st = "hung"]
  /\ UNCHANGED <<topics, ntopics, serving, crashed, req, pc, now, resp,
                 bodyRead, out, gets>>

CallbackPanics(i) ==
  /\ ~crashed
  /\ calls[i].st = "running"
  /\ calls' = [calls EXCEPT ![i].st = "panicked"]
  /\ crashed' = TRUE
  /\ UNCHANGED <<topics, ntopics, serving, req, pc, now, resp, bodyRead, out,
                 gets>>

\* ------------------------------------------------------- specifications
Setup ==
  \/ \E a \in TopicARNs, e \in Endpoints, c \in Callbacks : AddTopic(a, e, c)
  \/ ListenAndServe

Handle ==
  \/ \E s \in Slots : ServeHTTP(s)
  \/ \E s \in Slots : confirmSub(s)
  \/ \E s \in Slots, err \in BOOLEAN : httpGetReturns(s, err)
  \/ \E s \in Slots : processMessage(s)
  \/ \E s \in Slots : Respond(s)
  \/ \E i \in DOMAIN calls : CallbackReturns(i)
  \/ \E i \in DOMAIN calls : CallbackHangs(i)
  \/ \E i \in DOMAIN calls : CallbackPanics(i)

\* one delivery, of any shape
Deliver ==
  /\ \A s \in Slots : pc[s] = "idle"
  /\ \E r \in Requests : Arrive(1, r)

Next == Setup \/ Deliver \/ Handle

Spec == Init /\ [][Next]_vars

\* deliveries handled together, each on the goroutine net/http gives it
ConcDeliver == \E s \in Slots, r \in ConcRequests : Arrive(s, r)

ConcNext == Setup \/ ConcDeliver \/ Handle

ConcSpec == Init /\ [][ConcNext]_vars

\* a step of the handler of slot s that waits for nothing
HandlerStep(s) == ServeHTTP(s) \/ confirmSub(s) \/ processMessage(s) \/ Respond(s)

\* The Go scheduler runs every goroutine that can run: a handler takes its
\* next step unless it waits.  It waits only in http.Get, which has no
\* timeout and may never return; a callback may never return either.
HandlerFairness == \A s \in Slots : WF_vars(HandlerStep(s))

\* the program of the liveness checks: two registrations
LiveSetup ==
  \/ AddTopic("arn1", <<"/", "a">>, "cb1")
  \/ AddTopic("", <<"b">>, "cb2")
  \/ ListenAndServe

LiveDeliver == \E s \in Slots, r \in LiveRequests : Arrive(s, r)

LiveNext == LiveSetup \/ LiveDeliver \/ Handle

LiveSpec == Init /\ [][LiveNext]_vars /\ HandlerFairness

\* ------------------------------------------------------------ vocabulary
\* the handler of slot s has ended: it returned, or it panicked
Ended(s) == pc[s] \in {"done", "panicked"}
\* ServeHTTP has taken its branch for the request of slot s
Routed(s) == pc[s] \notin {"idle", "ServeHTTP"}
\* exactly one response was written for slot s, and it is this one
Answered(s, code, msg) == resp[s] = <<[code |-> code, body |-> <<msg, "\n">>]>>
CallsOf(s) == {i \in DOMAIN calls : calls[i].slot = s}
GetsOf(s) == {i \in DOMAIN gets : gets[i].slot = s}
\* the registration of the path of the request of slot s
Registration(s) == topics[req[s].path]
\* the request has the header, and its value is v
HasHeader(h, v) == h.present /\ h.v = v
\* the Content-Length header is the decimal text of the body's length
ExactLength(r) == r.contentLength = Hdr(Decimal(Len(r.body)))
\* the whole body is the text of a JSON object
IsObject(b) == ~Unmarshal(b).err /\ ~Unmarshal(b).nil
Field(b, k) == Unmarshal(b).m[k]

\* a Notification to a registered path with the registration's channel id
\* in the x-amz-sns-topic-arn header, whose body is a well-formed JSON object
\* with the Content-Length of its length
WellFormedNotification(s) ==
  /\ Found(req[s])
  /\ HasHeader(req[s].topic, Registration(s).TopicARN)
  /\ HasHeader(req[s].type, "Notification")
  /\ ExactLength(req[s])
  /\ IsObject(req[s].body)
  /\ \A k \in {"Timestamp", "Message", "MessageId"} : IsString(Field(req[s].body, k))

\* one callback goroutine was spawned for slot s: the registered callback,
\* with a Message of the body's Subject, Message and MessageId
OneCallbackWithFields(s) ==
  /\ Cardinality(CallsOf(s)) = 1
  /\ \A i \in CallsOf(s) :
       /\ calls[i].callback = Registration(s).Callback
       /\ ~calls[i].arg.nil
       /\ calls[i].arg.msg.Message = Field(req[s].body, "Message").s
       /\ calls[i].arg.msg.MessageId = Field(req[s].body, "MessageId").s
       /\ calls[i].arg.msg.Subject = Field(req[s].body, "Subject").s

\* C1, as stated: a well-formed Notification is answered 200 "ok" and causes
\* exactly one invocation of the registered callback, with a Message whose
\* Subject, Message and MessageId are the body's fields.  (Stated here for
\* the bodies whose Subject is a string, null or absent.)
C1_AsStated ==
  \A s \in Slots :
    (/\ Ended(s) /\ WellFormedNotification(s)
     /\ Field(req[s].body, "Subject").t \in {"string", "nil"}) =>
      (Answered(s, StatusOK, "ok") /\ OneCallbackWithFields(s))

\* C1, amended: the same for a delivery that is not in raw-delivery mode and
\* whose Subject, when the body has one, is a string or null.  No callback
\* goroutine is spawned before the flow has run, and never a second one.
C1_WellFormedNotification ==
  \A s \in Slots :
    (/\ WellFormedNotification(s)
     /\ ~IsRaw(req[s])
     /\ Field(req[s].body, "Subject").t \in {"string", "nil"}) =>
      /\ pc[s] # "panicked"
      /\ pc[s] = "done" => Answered(s, StatusOK, "ok")
      /\ pc[s] \in {"respond", "done"} => OneCallbackWithFields(s)
      /\ pc[s] \notin {"respond", "done"} => CallsOf(s) = {}

C1_Witness ==
  \E s \in Slots :
    /\ pc[s] = "done"
    /\ WellFormedNotification(s)
    /\ ~IsRaw(req[s])
    /\ Field(req[s].body, "Subject") = StringValue(<<"s">>)
    /\ Answered(s, StatusOK, "ok")
    /\ \E i \in CallsOf(s) : calls[i].arg.msg.Subject = <<"s">>

\* a delivery in structured mode with the Content-Length of its body, to a
\* registered path, with the registration's channel id
StructuredDelivery(s, type) ==
  /\ Found(req[s])
  /\ HasHeader(req[s].topic, Registration(s).TopicARN)
  /\ HasHeader(req[s].type, type)
  /\ ~IsRaw(req[s])
  /\ ExactLength(req[s])
  /\ IsObject(req[s].body)

\* the body lacks a field its flow requires, or holds it with a value that
\* is no string
LacksRequiredField(s) ==
  \/ /\ StructuredDelivery(s, "Notification")
     /\ \E k \in {"Timestamp", "Message", "MessageId"} : ~IsString(Field(req[s].body, k))
  \/ /\ StructuredDelivery(s, "SubscriptionConfirmation")
     /\ ~IsString(Field(req[s].body, "SubscribeURL"))

\* C2: a delivery whose JSON body lacks a required field (or holds it with a
\* non-string value) does not crash the handler; the flow returns without a
\* callback and without an outbound GET, and the sender receives 200 "ok".
C2_MissingFieldSwallowed ==
  \A s \in Slots :
    LacksRequiredField(s) =>
      /\ pc[s] # "panicked"
      /\ CallsOf(s) = {} /\ GetsOf(s) = {}
      /\ pc[s] = "done" => Answered(s, StatusOK, "ok")

\* C3: when the handler of a request has ended, exactly one response has
\* been written for it; never two at any time.
C3_ExactlyOneResponse ==
  \A s \in Slots :
    /\ Len(resp[s]) <= 1
    /\ Ended(s) => Len(resp[s]) = 1

\* C4: a request to a path with no entry in the routing table is answered
\* 404 "not found" whatever its headers and body are, with no callback and
\* no outbound GET.
C4_NotFound ==
  \A s \in Slots :
    (Routed(s) /\ ~Found(req[s])) =>
      /\ pc[s] = "done"
      /\ Answered(s, StatusNotFound, "not found")
      /\ CallsOf(s) = {} /\ GetsOf(s) = {}
      /\ ~bodyRead[s]

C4_Witness ==
  \E s \in Slots :
    /\ pc[s] = "done" /\ ~Found(req[s])
    /\ topics # <<>>
    /\ HasHeader(req[s].type, "Notification")
    /\ HasHeader(req[s].topic, "arn1")
    /\ req[s].body = WellFormed /\ ExactLength(req[s])
    /\ Answered(s, StatusNotFound, "not found")

\* the request is rejected: 400 "bad request", no callback, no outbound GET
Rejected(s) ==
  /\ pc[s] = "done"
  /\ Answered(s, StatusBadRequest, "bad request")
  /\ CallsOf(s) = {} /\ GetsOf(s) = {}

\* C5, as stated: a request to a registered path whose x-amz-sns-topic-arn
\* header is absent or differs from the registration's channel id is
\* answered 400 "bad request", with no callback and no outbound GET.
C5_AsStated ==
  \A s \in Slots :
    (/\ Routed(s) /\ Found(req[s])
     /\ ~HasHeader(req[s].topic, Registration(s).TopicARN)) => Rejected(s)

\* C5, amended: the same when the header's value, taken as the empty string
\* when the header is absent, differs from the registration's channel id (a
\* request without the header is accepted by a registration whose channel id
\* is the empty string).
C5_BadRequest ==
  \A s \in Slots :
    (/\ Routed(s) /\ Found(req[s])
     /\ HeaderGet(req[s].topic, "") # Registration(s).TopicARN) => Rejected(s)

C5_Witness ==
  \E s \in Slots :
    /\ Found(req[s]) /\ Registration(s).TopicARN = "arn1"
    /\ ~req[s].topic.present
    /\ HasHeader(req[s].type, "Notification")
    /\ req[s].body = WellFormed /\ ExactLength(req[s])
    /\ Rejected(s)

\* C6: a request to a registered path with the registration's channel id
\* whose x-amz-sns-message-type header is absent, or is neither
\* SubscriptionConfirmation nor Notification, is answered 501 "not
\* implemented"; its body is not read and no callback is invoked.
C6_NotImplemented ==
  \A s \in Slots :
    (/\ Routed(s) /\ Found(req[s])
     /\ HeaderGet(req[s].topic, "") = Registration(s).TopicARN
     /\ \/ ~req[s].type.present
        \/ req[s].type.v \notin {"SubscriptionConfirmation", "Notification"}) =>
      /\ pc[s] = "done"
      /\ Answered(s, StatusNotImplemented, "not implemented")
      /\ ~bodyRead[s]
      /\ CallsOf(s) = {} /\ GetsOf(s) = {}

C6_Witness ==
  \E s \in Slots :
    /\ pc[s] = "done" /\ Found(req[s])
    /\ HasHeader(req[s].topic, Registration(s).TopicARN)
    /\ ~req[s].type.present
    /\ req[s].body = WellFormed /\ ExactLength(req[s])
    /\ Answered(s, StatusNotImplemented, "not implemented")

\* a SubscriptionConfirmation to a registered path with the registration's
\* channel id, whose body is a JSON object holding a string SubscribeURL
ConfirmationWithURL(s) ==
  /\ Found(req[s])
  /\ HasHeader(req[s].topic, Registration(s).TopicARN)
  /\ HasHeader(req[s].type, "SubscriptionConfirmation")
  /\ IsObject(req[s].body)
  /\ IsString(Field(req[s].body, "SubscribeURL"))

\* exactly one http.Get was issued for slot s, to the body's SubscribeURL
OneGetToURL(s) ==
  /\ Cardinality(GetsOf(s)) = 1
  /\ \A i \in GetsOf(s) : gets[i].url = Field(req[s].body, "SubscribeURL").s

\* the Content-Length header, when it begins with a number, has none below 0
NoNegativeLength(r) == Sscanf(r.contentLength.v).nbytes >= 0

\* C7, as stated: a SubscriptionConfirmation whose JSON body holds a string
\* SubscribeURL causes exactly one outbound GET, to that URL, and is
\* answered 200 "ok".  (Stated here for the deliveries in structured mode
\* whose Content-Length is not negative.)
C7_AsStated ==
  \A s \in Slots :
    (/\ Ended(s) /\ ConfirmationWithURL(s)
     /\ ~IsRaw(req[s]) /\ NoNegativeLength(req[s])) =>
      (Answered(s, StatusOK, "ok") /\ OneGetToURL(s))

\* C7, amended: the same for a delivery in structured mode (the raw-delivery
\* flag not "true") whose Content-Length header is the body's length: the
\* one GET is issued by the flow, none before and no second one whatever the
\* first returns, and the request is answered 200 "ok" after either result.
C7_OneGet ==
  \A s \in Slots :
    (ConfirmationWithURL(s) /\ ~IsRaw(req[s]) /\ ExactLength(req[s])) =>
      /\ pc[s] # "panicked"
      /\ pc[s] \in {"httpGet", "respond", "done"} => OneGetToURL(s)
      /\ pc[s] \notin {"httpGet", "respond", "done"} => GetsOf(s) = {}
      /\ pc[s] = "done" => Answered(s, StatusOK, "ok")

C7_Witness ==
  \E s \in Slots :
    /\ pc[s] = "done"
    /\ ConfirmationWithURL(s) /\ ~IsRaw(req[s]) /\ ExactLength(req[s])
    /\ \E i \in GetsOf(s) : gets[i].st = "err"
    /\ OneGetToURL(s)
    /\ Answered(s, StatusOK, "ok")

\* one callback goroutine was spawned for slot s: the registered callback,
\* with nil
OneNilCallback(s) ==
  /\ Cardinality(CallsOf(s)) = 1
  /\ \A i \in CallsOf(s) :
       calls[i].callback = Registration(s).Callback /\ calls[i].arg.nil

\* C8, as stated: the confirmation's callback is invoked exactly once with
\* nil, after a network error of the GET too.  (Stated here for deliveries
\* in structured mode with the Content-Length of the body.)
C8_AsStated ==
  \A s \in Slots :
    (/\ pc[s] = "done"
     /\ ConfirmationWithURL(s) /\ ~IsRaw(req[s]) /\ ExactLength(req[s])) =>
      OneNilCallback(s)

\* C8, amended: the callback is invoked exactly once with nil when the GET
\* returned without error; when the GET returned an error, the error is
\* printed and the callback is not invoked.
C8_CallbackIffConfirmed ==
  \A s \in Slots :
    (ConfirmationWithURL(s) /\ ~IsRaw(req[s]) /\ ExactLength(req[s])) =>
      /\ pc[s] \notin {"respond", "done"} => CallsOf(s) = {}
      /\ pc[s] \in {"respond", "done"} =>
           \A i \in GetsOf(s) :
             /\ gets[i].st \in {"ok", "err"}
             /\ gets[i].st = "ok" => OneNilCallback(s)
             /\ gets[i].st = "err" =>
                  /\ CallsOf(s) = {}
                  /\ out[s] = <<"error confirming subscription">>

C8_Witness ==
  \E s \in Slots :
    /\ pc[s] = "done"
    /\ ConfirmationWithURL(s) /\ ~IsRaw(req[s]) /\ ExactLength(req[s])
    /\ \E i \in GetsOf(s) : gets[i].st = "ok"
    /\ OneNilCallback(s)
    /\ Answered(s, StatusOK, "ok")

\* the text is a decimal integer, with or without a sign
IsInteger(txt) ==
  LET u == IF txt # <<>> /\ Head(txt) \in {"-", "+"} THEN Tail(txt) ELSE txt
  IN u # <<>> /\ DigitRun(u) = u

\* a Notification to a registered path with the registration's channel id
NotificationDelivery(s) ==
  /\ Found(req[s])
  /\ HasHeader(req[s].topic, Registration(s).TopicARN)
  /\ HasHeader(req[s].type, "Notification")

\* C9, as stated: a Notification whose Content-Length header is missing or
\* is not an integer, whose body is shorter than Content-Length, or whose
\* body is not a JSON object, is answered 200 "ok" with no callback.
\* (Stated here for the handlers that return: no callback was invoked.)
C9_AsStated ==
  \A s \in Slots :
    LET r == req[s]
        cl == r.contentLength
    IN (/\ pc[s] = "done" /\ NotificationDelivery(s)
        /\ \/ ~cl.present
           \/ ~IsInteger(cl.v)
           \/ IsInteger(cl.v) /\ Sscanf(cl.v).nbytes > Len(r.body)
           \/ ~IsObject(r.body)) =>
         (Answered(s, StatusOK, "ok") /\ CallsOf(s) = {})

\* C9, amended: a Notification in structured mode whose Content-Length
\* header is missing or does not begin with a decimal integer, whose body is
\* shorter than that integer, or whose first Content-Length bytes are not a
\* JSON object, is answered 200 "ok" with no callback.
C9_NoData ==
  \A s \in Slots :
    LET r == req[s]
        cl == r.contentLength
        sc == Sscanf(cl.v)
    IN (/\ NotificationDelivery(s) /\ ~IsRaw(r)
        /\ \/ ~cl.present
           \/ sc.n # 1
           \/ sc.n = 1 /\ sc.nbytes > Len(r.body)
           \/ /\ sc.n = 1 /\ sc.nbytes >= 0 /\ sc.nbytes <= Len(r.body)
              /\ ~IsObject(SubSeq(r.body, 1, sc.nbytes))) =>
         /\ pc[s] # "panicked"
         /\ CallsOf(s) = {}
         /\ pc[s] = "done" => Answered(s, StatusOK, "ok")

C9_Witness ==
  \E s \in Slots :
    /\ pc[s] = "done"
    /\ NotificationDelivery(s) /\ ~IsRaw(req[s])
    /\ req[s].body = WellFormed
    /\ req[s].contentLength = Hdr(Decimal(Len(WellFormed) + 1))
    /\ out[s] = <<"error reading body">>
    /\ CallsOf(s) = {}
    /\ Answered(s, StatusOK, "ok")

\* a callback goroutine has blocked for ever
SomeCallbackHung == \E i \in DOMAIN calls : calls[i].st = "hung"

\* C10: a callback that never returns does not block the server.  The
\* request that spawned it gets its 200 "ok", and a request being handled
\* while the callback hangs gets its response, unless its own handler
\* panics or waits in http.Get, or a callback's panic ends the process.
C10_HungCallbackDoesNotBlock ==
  \A s \in Slots :
    /\ (pc[s] = "respond" /\ \E i \in CallsOf(s) : calls[i].st = "hung")
         ~> (Answered(s, StatusOK, "ok") \/ crashed)
    /\ (SomeCallbackHung /\ pc[s] \in {"ServeHTTP", "confirmSub", "processMessage", "respond"})
         ~> (Len(resp[s]) = 1 \/ pc[s] \in {"panicked", "httpGet"} \/ crashed)

C10_Witness ==
  /\ ~crashed
  /\ \E i \in CallsOf(1) : calls[i].st = "hung"
  /\ pc[1] = "done" /\ Answered(1, StatusOK, "ok")
  /\ pc[2] = "done" /\ Answered(2, StatusOK, "ok")
  /\ \E i \in CallsOf(2) : calls[i].st = "hung"

\* a callback goroutine has panicked
SomeCallbackPanicked == \E i \in DOMAIN calls : calls[i].st = "panicked"

\* C11: a callback that panics after it was spawned does not change the
\* acknowledgment.  The delivery that spawned it is still answered 200 "ok",
\* and a delivery being handled when the callback panics gets its response
\* (unless its own handler panics or waits in http.Get).
C11_PanickedCallbackKeepsAck ==
  \A s \in Slots :
    /\ (pc[s] = "respond" /\ \E i \in CallsOf(s) : calls[i].st = "panicked")
         ~> Answered(s, StatusOK, "ok")
    /\ (SomeCallbackPanicked /\ pc[s] \in {"ServeHTTP", "confirmSub", "processMessage", "respond"})
         ~> (Len(resp[s]) = 1 \/ pc[s] \in {"panicked", "httpGet"})

\* a Notification in raw-delivery mode to a registered path with the
\* registration's channel id
RawNotification(s) == NotificationDelivery(s) /\ IsRaw(req[s])

\* one callback goroutine was spawned for slot s: the registered callback,
\* with a Message of this text, of the x-amz-sns-message-id header, of no
\* Subject, and of the instant the extraction read from the clock
OneRawCallback(s, text) ==
  /\ Cardinality(CallsOf(s)) = 1
  /\ now[s] \in Instants
  /\ \A i \in CallsOf(s) :
       /\ calls[i].callback = Registration(s).Callback
       /\ ~calls[i].arg.nil
       /\ calls[i].arg.msg.Message = text
       /\ calls[i].arg.msg.MessageId = HeaderGet(req[s].messageId, <<>>)
       /\ calls[i].arg.msg.Subject = <<>>
       /\ calls[i].arg.msg.Timestamp = now[s]

\* C12, as stated: a Notification in raw-delivery mode, whatever its body
\* is, has its callback invoked with a Message whose Message is the request
\* body, MessageId the x-amz-sns-message-id header, Subject empty and
\* Timestamp the time of the extraction.  (Stated here for the handlers that
\* return.)
C12_AsStated ==
  \A s \in Slots :
    (pc[s] = "done" /\ RawNotification(s)) => OneRawCallback(s, req[s].body)

\* C12, amended: the same for a delivery whose Content-Length header is the
\* length of its body.  The body is not decoded: the handler never panics,
\* the one callback is spawned by the flow, and the answer is 200 "ok".
C12_RawDelivery ==
  \A s \in Slots :
    (RawNotification(s) /\ ExactLength(req[s])) =>
      /\ pc[s] # "panicked"
      /\ pc[s] \in {"respond", "done"} => OneRawCallback(s, req[s].body)
      /\ pc[s] \notin {"respond", "done"} => CallsOf(s) = {}
      /\ pc[s] = "done" => Answered(s, StatusOK, "ok")

C12_Witness ==
  \E s \in Slots :
    /\ pc[s] = "done"
    /\ RawNotification(s) /\ ExactLength(req[s])
    /\ req[s].body = <<"hello">>
    /\ req[s].messageId = Hdr(<<"abc">>)
    /\ now[s] = MaxTime
    /\ OneRawCallback(s, <<"hello">>)
    /\ \E i \in CallsOf(s) : calls[i].arg.msg.MessageId = <<"abc">>
    /\ Answered(s, StatusOK, "ok")

\* the path the endpoint is to be stored under: itself when it begins with
\* "/", and "/" followed by it otherwise
StoredAs(endpoint) ==
  IF Len(endpoint) >= 1 /\ Head(endpoint) = "/" THEN endpoint ELSE <<"/">> \o endpoint

\* C13: every AddTopic call, with any endpoint string, raises no error and
\* leaves a routing table whose keys all begin with "/", in which the
\* endpoint's path (p, or "/"+p) yields the call's channel id and callback,
\* and every other path yields what it did before the call.
C13_AddTopicStoresNormalized ==
  [][\A a \in TopicARNs, e \in Endpoints, c \in Callbacks :
       AddTopic(a, e, c) =>
         /\ ~crashed'
         /\ StoredAs(e) \in DOMAIN topics'
         /\ topics'[StoredAs(e)] = [TopicARN |-> a, Callback |-> c]
         /\ \A p \in DOMAIN topics' : Head(p) = "/"
         /\ \A p \in DOMAIN topics \ {StoredAs(e)} :
              p \in DOMAIN topics' /\ topics'[p] = topics[p]]_vars

\* a SubscriptionConfirmation to a registered path with the registration's
\* channel id
ConfirmationDelivery(s) ==
  /\ Found(req[s])
  /\ HasHeader(req[s].topic, Registration(s).TopicARN)
  /\ HasHeader(req[s].type, "SubscriptionConfirmation")

\* the http.Get of slot s has been called and has not returned
GetPending(s) == \E i \in GetsOf(s) : gets[i].st = "pending"

\* C14, as stated: the response to a SubscriptionConfirmation does not wait
\* for the outbound GET: a handler whose GET is outstanding, and may never
\* return, gets its 200 "ok" written (unless a callback's panic ends the
\* process).
C14_AsStated ==
  \A s \in Slots :
    (ConfirmationDelivery(s) /\ GetPending(s)) ~> (Answered(s, StatusOK, "ok") \/ crashed)

\* C14, amended: the response waits for the outbound GET and for nothing
\* else.  While the GET is outstanding no response is written; once it has
\* returned, with or without an error, the 200 "ok" is written without
\* waiting for the callback (unless a callback's panic ends the process).
C14_ResponseAwaitsGet ==
  /\ [](\A s \in Slots :
          (ConfirmationDelivery(s) /\ GetPending(s)) => (pc[s] = "httpGet" /\ resp[s] = <<>>))
  /\ \A s \in Slots :
       (ConfirmationDelivery(s) /\ GetsOf(s) # {} /\ ~GetPending(s))
         ~> (Answered(s, StatusOK, "ok") \/ crashed)

C14_Witness ==
  /\ ~crashed
  /\ ConfirmationDelivery(1) /\ GetPending(1)
  /\ pc[1] = "httpGet" /\ resp[1] = <<>>
  /\ ConfirmationDelivery(2) /\ GetsOf(2) # {} /\ ~GetPending(2)
  /\ \E i \in CallsOf(2) : calls[i].st = "running"
  /\ pc[2] = "done" /\ Answered(2, StatusOK, "ok")

\* C15: for a SubscriptionConfirmation the events are ordered.  The outbound
\* GET has returned (a result or an error) before the callback is spawned
\* and before the flow returns, and the response is written only after the
\* flow has returned: no callback of the request exists, the flow has not
\* returned and no response is written while its GET has not been issued or
\* is outstanding.
C15_Waterfall ==
  \A s \in Slots :
    ConfirmationDelivery(s) =>
      /\ CallsOf(s) # {} => (GetsOf(s) # {} /\ ~GetPending(s))
      /\ GetPending(s) => (pc[s] = "httpGet" /\ CallsOf(s) = {} /\ resp[s] = <<>>)
      /\ pc[s] \in {"respond", "done"} => ~GetPending(s)
      /\ resp[s] # <<>> => pc[s] = "done"

C15_Witness ==
  /\ ConfirmationDelivery(1) /\ pc[1] = "done" /\ Answered(1, StatusOK, "ok")
  /\ \E i \in GetsOf(1) : gets[i].st = "ok"
  /\ \E i \in CallsOf(1) : calls[i].arg.nil /\ calls[i].st = "returned"
  /\ ConfirmationDelivery(2) /\ pc[2] = "respond" /\ resp[2] = <<>>
  /\ \E i \in GetsOf(2) : gets[i].st = "err"
  /\ CallsOf(2) = {}

\* the body's Timestamp is a string that is not the text of any instant in
\* the fixed format
TimestampMismatch(b) ==
  /\ IsString(Field(b, "Timestamp"))
  /\ \A t \in 0..MaxTime : Field(b, "Timestamp").s # <<amzTimeFormat(t)>>

\* a well-formed Notification, but for its Timestamp, which does not match
\* the fixed format
BadTimestampNotification(s) ==
  /\ WellFormedNotification(s)
  /\ Field(req[s].body, "Subject").t \in {"string", "nil"}
  /\ TimestampMismatch(req[s].body)

\* one callback goroutine was spawned for slot s, with a Message of the zero
\* Timestamp and of the body's Message and MessageId
OneCallbackWithZeroTime(s) ==
  /\ Cardinality(CallsOf(s)) = 1
  /\ \A i \in CallsOf(s) :
       /\ calls[i].callback = Registration(s).Callback
       /\ ~calls[i].arg.nil
       /\ calls[i].arg.msg.Timestamp = ZeroTime
       /\ calls[i].arg.msg.Message = Field(req[s].body, "Message").s
       /\ calls[i].arg.msg.MessageId = Field(req[s].body, "MessageId").s

\* C16, as stated: a Notification whose Timestamp is a string that does not
\* match the fixed format is answered 200 "ok" and has its callback invoked
\* exactly once, with the zero Timestamp and the body's Message and
\* MessageId.  (Stated here for the bodies that are otherwise well formed.)
C16_AsStated ==
  \A s \in Slots :
    (Ended(s) /\ BadTimestampNotification(s)) =>
      (Answered(s, StatusOK, "ok") /\ OneCallbackWithZeroTime(s))

\* C16, amended: the same for a delivery that is not in raw-delivery mode.
\* The flow does not abort: the handler never panics and the one callback is
\* spawned by the flow.
C16_ZeroTimestamp ==
  \A s \in Slots :
    (BadTimestampNotification(s) /\ ~IsRaw(req[s])) =>
      /\ pc[s] # "panicked"
      /\ pc[s] \in {"respond", "done"} => OneCallbackWithZeroTime(s)
      /\ pc[s] \notin {"respond", "done"} => CallsOf(s) = {}
      /\ pc[s] = "done" => Answered(s, StatusOK, "ok")

C16_Witness ==
  \E s \in Slots :
    /\ pc[s] = "done"
    /\ BadTimestampNotification(s) /\ ~IsRaw(req[s])
    /\ Field(req[s].body, "Timestamp").s # <<>>
    /\ OneCallbackWithZeroTime(s)
    /\ \E i \in CallsOf(s) : calls[i].arg.msg.Message = <<"m">>
    /\ Answered(s, StatusOK, "ok")

\* C17: handling a request never changes the routing table.  Once the
\* server serves, no step changes the mapping from path to channel id and
\* callback, whatever the outcome of the request and however the handlers
\* interleave; a step that changes it is an AddTopic call.
C17_TopicsReadOnly ==
  [][/\ serving => topics' = topics
     /\ (\E s \in Slots : pc'[s] # pc[s] \/ resp'[s] # resp[s]) => topics' = topics
     /\ topics' # topics =>
          \E a \in TopicARNs, e \in Endpoints, c \in Callbacks : AddTopic(a, e, c)]_vars

C17_Witness ==
  /\ Cardinality(DOMAIN topics) = 2
  /\ pc[1] = "done" /\ Answered(1, StatusOK, "ok") /\ CallsOf(1) # {}
  /\ pc[2] = "panicked" /\ resp[2] = <<>>
  /\ req[1].path # req[2].path

\* C18: in every interleaving of requests, a callback is invoked only on
\* behalf of a request to a registered path, with the registration's channel
\* id and of type SubscriptionConfirmation or Notification, whose flow has
\* run and whose only answer is 200 "ok"; a request causes at most one
\* invocation; the callback is the one registered for the request's path;
\* and its argument is nil exactly when the type is SubscriptionConfirmation.
C18_CallbackOnlyForAccepted ==
  /\ \A i \in DOMAIN calls :
       LET s == calls[i].slot
       IN /\ Found(req[s])
          /\ HeaderGet(req[s].topic, "") = Registration(s).TopicARN
          /\ req[s].type.present
          /\ req[s].type.v \in {"SubscriptionConfirmation", "Notification"}
          /\ pc[s] \in {"respond", "done"}
          /\ resp[s] = <<>> \/ Answered(s, StatusOK, "ok")
          /\ pc[s] = "done" => Answered(s, StatusOK, "ok")
          /\ calls[i].callback = Registration(s).Callback
          /\ calls[i].arg.nil <=> req[s].type.v = "SubscriptionConfirmation"
  /\ \A s \in Slots : Cardinality(CallsOf(s)) <= 1

C18_Witness ==
  /\ pc[1] = "done" /\ pc[2] = "done"
  /\ HasHeader(req[1].type, "SubscriptionConfirmation")
  /\ HasHeader(req[2].type, "Notification")
  /\ \E i \in CallsOf(1), j \in CallsOf(2) :
       /\ calls[i].arg.nil /\ ~calls[j].arg.nil
       /\ calls[i].callback # calls[j].callback
  /\ Answered(1, StatusOK, "ok") /\ Answered(2, StatusOK, "ok")

\* C19, as stated: raw-delivery mode does not bypass the Content-Length
\* requirement.  A Notification in raw-delivery mode whose Content-Length
\* header is missing, is not an integer, or exceeds the body's length fires
\* no callback and is answered 200 "ok".  (Stated here for the handlers that
\* return.)
C19_AsStated ==
  \A s \in Slots :
    LET r == req[s]
        cl == r.contentLength
    IN (/\ pc[s] = "done" /\ RawNotification(s)
        /\ \/ ~cl.present
           \/ ~IsInteger(cl.v)
           \/ IsInteger(cl.v) /\ Sscanf(cl.v).nbytes > Len(r.body)) =>
         (Answered(s, StatusOK, "ok") /\ CallsOf(s) = {})

\* C19, amended: the same when the header is missing, does not begin with a
\* decimal integer, or begins with one that exceeds the body's length; and
\* when the extraction succeeds (the header begins with an integer from 0 to
\* the body's length), Message is exactly the first Content-Length bytes of
\* the body.
C19_RawNeedsContentLength ==
  \A s \in Slots :
    LET r == req[s]
        cl == r.contentLength
        sc == Sscanf(cl.v)
    IN RawNotification(s) =>
         /\ (~cl.present \/ sc.n # 1 \/ sc.nbytes > Len(r.body)) =>
              /\ pc[s] # "panicked"
              /\ CallsOf(s) = {}
              /\ pc[s] = "done" => Answered(s, StatusOK, "ok")
         /\ (cl.present /\ sc.n = 1 /\ sc.nbytes >= 0 /\ sc.nbytes <= Len(r.body)) =>
              /\ pc[s] # "panicked"
              /\ pc[s] \in {"respond", "done"} =>
                   OneRawCallback(s, SubSeq(r.body, 1, sc.nbytes))
              /\ pc[s] = "done" => Answered(s, StatusOK, "ok")

C19_Witness ==
  \E s \in Slots :
    /\ pc[s] = "done" /\ RawNotification(s)
    /\ req[s].body = WellFormed \o <<"hello">>
    /\ req[s].contentLength = Hdr(Decimal(Len(WellFormed)))
    /\ OneRawCallback(s, WellFormed)
    /\ Answered(s, StatusOK, "ok")

====
